---- MODULE Spec2Model ----
(***************************************************************************)
(* A state-machine model of orders/api/models.py: the relational schema    *)
(* of the ordering platform (User, Shop, Category, Product, ProductInfo,   *)
(* Parameter, ProductParameter, Contact, Order, OrderItem,                 *)
(* ConfirmEmailToken), the UserManager factory and ConfirmEmailToken.save. *)
(*                                                                         *)
(* A table is the set of its rows; a row is a record holding its primary   *)
(* key, its foreign keys and the columns that a constraint or a handler    *)
(* of models.py reads or writes.  Free-text columns that no constraint     *)
(* and no handler touches (names, prices, addresses, the password hash)    *)
(* are left out.  Python values are written as strings: "None", "True",    *)
(* "False", "1"; a str is a sequence of one-character strings.             *)
(***************************************************************************)
EXTENDS Integers, Sequences, FiniteSets, TLC

VARIABLES user, shop, category, category_shops, product, product_info,
          parameter, product_parameter, contact, order, order_item, token,
          seq, result, inst, writer

tables == <<user, shop, category, category_shops, product, product_info,
            parameter, product_parameter, contact, order, order_item, token>>

vars == <<user, shop, category, category_shops, product, product_info,
          parameter, product_parameter, contact, order, order_item, token,
          seq, result, inst, writer>>

(***************************************************************************)
(* Bounds of the model: how many rows each table may ever receive.         *)
(***************************************************************************)
MaxUsers == 2

MaxRows == 2

MaxNew == 1

MaxTokens == 2

TableNames == {"user", "shop", "category", "category_shops", "product", "product_info",
               "parameter", "product_parameter", "contact", "order", "order_item", "token"}

ids(rows) == {r.id : r \in rows}

\* The outcome of the last call: the handler, how it ended, the pk it stored.
Outcome(op, status, pk) == [op |-> op, status |-> status, pk |-> pk]

OK == "ok"

\* IntegrityError as the storage engine raises it, naming what was violated
UniqueViolation(name) == "IntegrityError: unique " \o name

ForeignKeyViolation == "IntegrityError: foreign key"

(***************************************************************************)
(* Python values                                                           *)
(***************************************************************************)
None == <<"None">>

Absent == "absent"

\* `not email`: None and the empty str are falsy.
Truthy(s) == s # None /\ s # << >>

\* `v is not True` is an identity test: only the bool True passes it.
IsTrue(v) == v = "True"

\* BooleanField.to_python, applied when the row is written: True and 1 -> true.
to_python(v) == v \in {"True", "1"}

\* dict.setdefault
setdefault(d, k, v) == IF d[k] = Absent THEN [d EXCEPT ![k] = v] ELSE d

(***************************************************************************)
(* BaseUserManager.normalize_email: strip, split at the last "@", lower    *)
(* the domain part and nothing else; a str without "@" is returned as is.  *)
(***************************************************************************)
lower(c) == CASE c = "A" -> "a" [] c = "X" -> "x" [] OTHER -> c

RECURSIVE lstrip(_)
lstrip(s) == IF s # << >> /\ Head(s) = " " THEN lstrip(Tail(s)) ELSE s

RECURSIVE rstrip(_)
rstrip(s) == IF s # << >> /\ s[Len(s)] = " " THEN rstrip(SubSeq(s, 1, Len(s) - 1)) ELSE s

strip(s) == rstrip(lstrip(s))

\* index of the last "@", 0 when there is none (rsplit("@", 1) raises ValueError)
last_at(s) == LET at == {i \in 1..Len(s) : s[i] = "@"}
              IN IF at = {} THEN 0 ELSE CHOOSE i \in at : \A j \in at : j <= i

normalize_email(email) ==
    LET e == IF email = None THEN << >> ELSE email
        t == strip(e)
        k == last_at(t)
    IN IF k = 0 THEN e
       ELSE SubSeq(t, 1, k) \o [i \in 1..(Len(t) - k) |-> lower(t[k + i])]

(***************************************************************************)
(* Inputs of the user factory                                              *)
(***************************************************************************)
a_x == <<"a", "@", "x">>

A_X == <<"A", "@", "X">>

a_X == <<"a", "@", "X">>

EmailArgs == { None, << >>,
               <<"a", "@", "x">>, <<"A", "@", "X">>, <<"a", "@", "X">>,
               <<"A", "@", "x">>, <<"a", "@", "x", " ">>, <<"a", "x">> }

NoExtra == [is_staff |-> Absent, is_superuser |-> Absent, is_active |-> Absent]

\* the values a caller passes for a flag: True, False, and 1 (equal to True, not True)
FlagArgs == {"True", "False", "1"}

\* the keyword arguments of one call: at most one of the three fields is passed
ExtraFields ==
    {NoExtra}
       \cup {[NoExtra EXCEPT !.is_staff = v] : v \in FlagArgs}
       \cup {[NoExtra EXCEPT !.is_superuser = v] : v \in FlagArgs}
       \cup {[NoExtra EXCEPT !.is_active = v] : v \in {"True", "False"}}

\* normalize_email over the inputs, evaluated once
normalized == [e \in EmailArgs |-> normalize_email(e)]

(***************************************************************************)
(* User and UserManager                                                    *)
(***************************************************************************)
\* User.email: unique=True
email_unique_off(row) == TRUE

email_unique(row) == \A u \in user : u.email # row.email

\* User.is_active: default=False
is_active_default_on == TRUE

is_active_default == FALSE

\* self.model(email=email, **extra_fields)
User(pk, email, extra) ==
    [id |-> pk, email |-> email,
     is_staff |-> to_python(extra.is_staff),
     is_superuser |-> to_python(extra.is_superuser),
     is_active |-> IF extra.is_active = Absent THEN is_active_default
                   ELSE to_python(extra.is_active)]

\* user.save(using=self._db): an INSERT, refused when the email is taken
user_save(op, row) ==
    IF email_unique(row)
    THEN /\ user' = user \cup {row}
         /\ seq' = [seq EXCEPT !.user = row.id]
         /\ result' = Outcome(op, OK, row.id)
    ELSE /\ result' = Outcome(op, UniqueViolation("user.email"), 0)
         /\ UNCHANGED <<user, seq>>

email_given_any(email) == TRUE

email_given(email) == Truthy(email)

_create_user(op, email, extra) ==
    IF ~email_given(email)
    THEN /\ result' = Outcome(op, "ValueError: The given email must be set", 0)
         /\ UNCHANGED <<user, seq>>
    ELSE user_save(op, User(seq.user + 1, normalized[email], extra))

create_user(email, extra) ==
    /\ _create_user("create_user", email,
                    setdefault(setdefault(extra, "is_staff", "False"), "is_superuser", "False"))
    /\ UNCHANGED <<shop, category, category_shops, product, product_info, parameter,
                   product_parameter, contact, order, order_item, token, inst, writer>>

\* the two flag tests of create_superuser
superuser_flag_truthy(v) == v \in {"True", "1"}

superuser_flag(v) == IsTrue(v)

create_superuser(email, extra) ==
    /\ LET x == setdefault(setdefault(extra, "is_staff", "True"), "is_superuser", "True")
       IN IF ~superuser_flag(x.is_staff)
          THEN /\ result' = Outcome("create_superuser",
                                    "ValueError: Superuser must have is_staff=True.", 0)
               /\ UNCHANGED <<user, seq>>
          ELSE IF ~superuser_flag(x.is_superuser)
          THEN /\ result' = Outcome("create_superuser",
                                    "ValueError: Superuser must have is_superuser=True.", 0)
               /\ UNCHANGED <<user, seq>>
          ELSE _create_user("create_superuser", email, x)
    /\ UNCHANGED <<shop, category, category_shops, product, product_info, parameter,
                   product_parameter, contact, order, order_item, token, inst, writer>>

\* a later, separate update of a stored user: user.is_active = True; user.save()
activate_user(pk) ==
    /\ \E u \in user : u.id = pk /\ ~u.is_active
    /\ user' = {IF u.id = pk THEN [u EXCEPT !.is_active = TRUE] ELSE u : u \in user}
    /\ result' = Outcome("activate_user", OK, pk)
    /\ UNCHANGED <<shop, category, category_shops, product, product_info, parameter,
                   product_parameter, contact, order, order_item, token, seq, inst, writer>>

(***************************************************************************)
(* The schema: foreign keys, uniqueness constraints, cascading deletes     *)
(***************************************************************************)
NULL == 0

STATE_CHOICES == {"basket", "new", "confirmed", "assembled", "sent", "delivered", "canceled"}

Table(t) ==
    CASE t = "user" -> user [] t = "shop" -> shop [] t = "category" -> category
      [] t = "category_shops" -> category_shops
      [] t = "product" -> product [] t = "product_info" -> product_info
      [] t = "parameter" -> parameter [] t = "product_parameter" -> product_parameter
      [] t = "contact" -> contact [] t = "order" -> order
      [] t = "order_item" -> order_item [] t = "token" -> token

\* a foreign key names a stored row (the storage engine refuses any other value)
fk(t, ref) == ref \in ids(Table(t))

\* the candidates for a reference: the keys issued so far and one never issued
Refs(t) == 1..(seq[t] + 1)

\* the first violated constraint of a list <<holds, error>>, OK when there is none
RECURSIVE check(_)
check(cs) == IF cs = << >> THEN OK
             ELSE IF ~Head(cs)[1] THEN Head(cs)[2] ELSE check(Tail(cs))

\* on_delete=CASCADE, one definition per foreign key: the keys of the rows
\* that go with the deleted keys D of the referenced table
keep_rows(D) == {}

Shop_user(D) == ids({r \in shop : r.user \in D})

Product_category(D) == ids({r \in product : r.category \in D})

ProductInfo_product(D) == ids({r \in product_info : r.product \in D})

ProductInfo_shop(D) == ids({r \in product_info : r.shop \in D})

ProductParameter_product_info(D) == ids({r \in product_parameter : r.product_info \in D})

ProductParameter_parameter(D) == ids({r \in product_parameter : r.parameter \in D})

Contact_user(D) == ids({r \in contact : r.user \in D})

Order_user(D) == ids({r \in order : r.user \in D})

Order_contact(D) == ids({r \in order : r.contact \in D})

OrderItem_order(D) == ids({r \in order_item : r.order \in D})

OrderItem_product_info(D) == ids({r \in order_item : r.product_info \in D})

ConfirmEmailToken_user(D) == ids({r \in token : r.user \in D})

\* the link rows of Category.shops go with their category and with their shop
Category_shops(C, S) == ids({r \in category_shops : r.category \in C \/ r.shop \in S})

\* the rows a delete of the row pk of table t collects, table by table
collect(t, pk) ==
    LET seed(n) == IF n = t THEN {pk} ELSE {}
        U   == seed("user")
        S   == seed("shop") \cup Shop_user(U)
        C   == seed("category")
        P   == seed("product") \cup Product_category(C)
        Par == seed("parameter")
        PI  == seed("product_info") \cup ProductInfo_product(P) \cup ProductInfo_shop(S)
        PP  == seed("product_parameter") \cup ProductParameter_product_info(PI)
                  \cup ProductParameter_parameter(Par)
        Con == seed("contact") \cup Contact_user(U)
        Ord == seed("order") \cup Order_user(U) \cup Order_contact(Con)
        OI  == seed("order_item") \cup OrderItem_order(Ord) \cup OrderItem_product_info(PI)
        Tok == seed("token") \cup ConfirmEmailToken_user(U)
    IN [user |-> U, shop |-> S, category |-> C,
        category_shops |-> seed("category_shops") \cup Category_shops(C, S),
        product |-> P, parameter |-> Par,
        product_info |-> PI, product_parameter |-> PP, contact |-> Con, order |-> Ord,
        order_item |-> OI, token |-> Tok]

without(rows, D) == {r \in rows : r.id \notin D}

\* the DELETE statements for the collected keys d
remove(d) ==
    /\ user' = without(user, d.user)
    /\ shop' = without(shop, d.shop)
    /\ category' = without(category, d.category)
    /\ category_shops' = without(category_shops, d.category_shops)
    /\ product' = without(product, d.product)
    /\ product_info' = without(product_info, d.product_info)
    /\ parameter' = without(parameter, d.parameter)
    /\ product_parameter' = without(product_parameter, d.product_parameter)
    /\ contact' = without(contact, d.contact)
    /\ order' = without(order, d.order)
    /\ order_item' = without(order_item, d.order_item)
    /\ token' = without(token, d.token)

\* Model.delete() on the stored row pk of table t
delete(t, pk) ==
    /\ pk \in ids(Table(t))
    /\ remove(collect(t, pk))
    /\ result' = Outcome("delete", OK, 0)
    /\ UNCHANGED <<seq, inst, writer>>

\* Model.save() of a new row: an INSERT, refused with `status` unless it is OK
insert(t, row, status, rows, rest) ==
    /\ result' = Outcome("save", status, 0)
    /\ IF status = OK
       THEN rows' = rows \cup {row} /\ seq' = [seq EXCEPT ![t] = row.id]
       ELSE UNCHANGED <<rows, seq>>
    /\ UNCHANGED rest

\* Model.save() of a changed stored row: an UPDATE of `old` to `row`
update(old, row, status, rows, rest) ==
    /\ old \in rows
    /\ result' = Outcome("save", status, 0)
    /\ IF status = OK THEN rows' = (rows \ {old}) \cup {row} ELSE UNCHANGED rows
    /\ UNCHANGED rest

\* Shop.user: OneToOneField, null=True
Shop(pk, u) == [id |-> pk, user |-> u]

shop_check(row) ==
    check(<< <<row.user = NULL \/ \A r \in shop : r.id = row.id \/ r.user # row.user,
               UniqueViolation("shop.user")>>,
             <<row.user = NULL \/ fk("user", row.user), ForeignKeyViolation>> >>)

create_shop(u) ==
    insert("shop", Shop(seq.shop + 1, u), shop_check(Shop(seq.shop + 1, u)), shop,
           <<user, category, category_shops, product, product_info, parameter,
             product_parameter, contact, order, order_item, token, inst, writer>>)

create_category ==
    insert("category", [id |-> seq.category + 1], OK, category,
           <<user, shop, category_shops, product, product_info, parameter,
             product_parameter, contact, order, order_item, token, inst, writer>>)

\* Category.shops: ManyToManyField; category.shops.add(shop) stores a link row
\* unless the link is there already
shops_add(c, s) ==
    /\ \A r \in category_shops : <<r.category, r.shop>> # <<c, s>>
    /\ insert("category_shops", [id |-> seq.category_shops + 1, category |-> c, shop |-> s],
              check(<< <<fk("category", c) /\ fk("shop", s), ForeignKeyViolation>> >>),
              category_shops,
              <<user, shop, category, product, product_info, parameter,
                product_parameter, contact, order, order_item, token, inst, writer>>)

Product(pk, c) == [id |-> pk, category |-> c]

create_product(c) ==
    insert("product", Product(seq.product + 1, c),
           check(<< <<fk("category", c), ForeignKeyViolation>> >>), product,
           <<user, shop, category, category_shops, product_info, parameter,
             product_parameter, contact, order, order_item, token, inst, writer>>)

create_parameter ==
    insert("parameter", [id |-> seq.parameter + 1], OK, parameter,
           <<user, shop, category, category_shops, product, product_info,
             product_parameter, contact, order, order_item, token, inst, writer>>)

ProductInfo(pk, p, s, ext, qty) ==
    [id |-> pk, product |-> p, shop |-> s, external_id |-> ext, quantity |-> qty]

\* UniqueConstraint(fields=['product', 'shop', 'external_id'], name='unique_product_info')
unique_product_info_off(row) == TRUE

unique_product_info(row) ==
    \A r \in product_info :
        r.id = row.id \/ <<r.product, r.shop, r.external_id>> # <<row.product, row.shop, row.external_id>>

product_info_check(row) ==
    check(<< <<unique_product_info(row), UniqueViolation("unique_product_info")>>,
             <<fk("product", row.product) /\ fk("shop", row.shop), ForeignKeyViolation>> >>)

product_info_rest == <<user, shop, category, category_shops, product, parameter,
                       product_parameter, contact, order, order_item, token, inst>>

create_product_info(p, s, ext, qty) ==
    /\ insert("product_info", ProductInfo(seq.product_info + 1, p, s, ext, qty),
              product_info_check(ProductInfo(seq.product_info + 1, p, s, ext, qty)), product_info,
              product_info_rest)
    /\ UNCHANGED writer

product_info_save(old, s, ext, qty) ==
    /\ update(old, [old EXCEPT !.shop = s, !.external_id = ext, !.quantity = qty],
              product_info_check([old EXCEPT !.shop = s, !.external_id = ext, !.quantity = qty]),
              product_info, product_info_rest)
    /\ UNCHANGED <<seq, writer>>

ProductParameter(pk, pi, par) == [id |-> pk, product_info |-> pi, parameter |-> par]

\* UniqueConstraint(fields=['product_info', 'parameter'], name='unique_product_parameter')
unique_product_parameter(row) ==
    \A r \in product_parameter :
        r.id = row.id \/ <<r.product_info, r.parameter>> # <<row.product_info, row.parameter>>

product_parameter_check(row) ==
    check(<< <<unique_product_parameter(row), UniqueViolation("unique_product_parameter")>>,
             <<fk("product_info", row.product_info) /\ fk("parameter", row.parameter),
               ForeignKeyViolation>> >>)

create_product_parameter(pi, par) ==
    insert("product_parameter", ProductParameter(seq.product_parameter + 1, pi, par),
           product_parameter_check(ProductParameter(seq.product_parameter + 1, pi, par)),
           product_parameter,
           <<user, shop, category, category_shops, product, product_info, parameter,
             contact, order, order_item, token, inst, writer>>)

Contact(pk, u) == [id |-> pk, user |-> u]

create_contact(u) ==
    insert("contact", Contact(seq.contact + 1, u),
           check(<< <<fk("user", u), ForeignKeyViolation>> >>), contact,
           <<user, shop, category, category_shops, product, product_info, parameter,
             product_parameter, order, order_item, token, inst, writer>>)

\* Order.contact: null=True; Order.state: choices are labels, save() checks none
Order(pk, u, state, c) == [id |-> pk, user |-> u, state |-> state, contact |-> c]

\* the fulfilment sequence of the states, "canceled" aside
rank(state) ==
    CASE state = "basket" -> 0 [] state = "new" -> 1 [] state = "confirmed" -> 2
      [] state = "assembled" -> 3 [] state = "sent" -> 4 [] state = "delivered" -> 5
      [] OTHER -> 6

order_check_lifecycle(old, row) ==
    check(<< <<fk("user", row.user) /\ (row.contact = NULL \/ fk("contact", row.contact)),
               ForeignKeyViolation>>,
             <<row.state = old.state \/ rank(row.state) = rank(old.state) + 1
                  \/ (row.state = "canceled" /\ rank(old.state) < 5),
               "ValidationError: state">>,
             <<row.state = "basket" \/ row.contact # NULL, "ValidationError: contact">> >>)

\* what save() checks of an Order: its foreign keys, nothing of old.state
order_check(old, row) ==
    check(<< <<fk("user", row.user) /\ (row.contact = NULL \/ fk("contact", row.contact)),
               ForeignKeyViolation>> >>)

order_rest == <<user, shop, category, category_shops, product, product_info, parameter,
                product_parameter, contact, order_item, token, inst, writer>>

create_order(u, state, c) ==
    insert("order", Order(seq.order + 1, u, state, c),
           order_check(Order(seq.order + 1, u, "basket", NULL), Order(seq.order + 1, u, state, c)),
           order, order_rest)

order_save(old, state, c) ==
    /\ update(old, [old EXCEPT !.state = state, !.contact = c],
              order_check(old, [old EXCEPT !.state = state, !.contact = c]), order, order_rest)
    /\ UNCHANGED seq

OrderItem(pk, o, pi, qty) == [id |-> pk, order |-> o, product_info |-> pi, quantity |-> qty]

\* UniqueConstraint(fields=['order_id', 'product_info'], name='unique_order_item')
unique_order_item_off(row) == TRUE

unique_order_item(row) ==
    \A r \in order_item :
        r.id = row.id \/ <<r.order, r.product_info>> # <<row.order, row.product_info>>

order_item_check(row) ==
    check(<< <<unique_order_item(row), UniqueViolation("unique_order_item")>>,
             <<fk("order", row.order) /\ fk("product_info", row.product_info),
               ForeignKeyViolation>> >>)

order_item_rest == <<user, shop, category, category_shops, product, product_info, parameter,
                     product_parameter, contact, order, token, inst, writer>>

create_order_item(o, pi, qty) ==
    insert("order_item", OrderItem(seq.order_item + 1, o, pi, qty),
           order_item_check(OrderItem(seq.order_item + 1, o, pi, qty)), order_item,
           order_item_rest)

order_item_save(old, pi, qty) ==
    /\ update(old, [old EXCEPT !.product_info = pi, !.quantity = qty],
              order_item_check([old EXCEPT !.product_info = pi, !.quantity = qty]), order_item,
              order_item_rest)
    /\ UNCHANGED seq

(***************************************************************************)
(* ConfirmEmailToken.  `inst` holds the instances in memory: n names the   *)
(* instance, pk is its primary key (0 until a save stored it), key is its  *)
(* key attribute ("" when none was supplied).                              *)
(***************************************************************************)
\* what generate_key() may return: the generator's random strings
Keys == {"k1", "k2"}

ConfirmEmailToken(pk, u, key) == [id |-> pk, user |-> u, key |-> key]

\* `if not self.key`
key_absent_always(key) == TRUE

key_absent(key) == key = ""

\* the key after the first two lines of save(); k is what generate_key() returns
key_to_save(key, k) == IF key_absent(key) THEN k ELSE key

\* key: unique=True
key_unique(row) == \A r \in token : r.id = row.id \/ r.key # row.key

token_check(row) ==
    check(<< <<key_unique(row), UniqueViolation("token.key")>>,
             <<fk("user", row.user), ForeignKeyViolation>> >>)

token_rest == <<user, shop, category, category_shops, product, product_info, parameter,
                product_parameter, contact, order, order_item, writer>>

\* ConfirmEmailToken(user=u, key=key): a new instance, nothing stored
token_new(u, key) ==
    /\ inst' = inst \cup {[n |-> Cardinality(inst) + 1, pk |-> 0, user |-> u, key |-> key]}
    /\ result' = Outcome("ConfirmEmailToken", OK, 0)
    /\ UNCHANGED <<token, seq>>
    /\ UNCHANGED token_rest

\* super().save(): UPDATE the row of the instance's pk; INSERT when the
\* instance has no pk or its row is gone
stored_pk(i) == IF i.pk = 0 THEN seq.token + 1 ELSE i.pk

\* ConfirmEmailToken.save() on instance i, generate_key() returning k
token_save(i, k) ==
    LET row == ConfirmEmailToken(stored_pk(i), i.user, key_to_save(i.key, k))
        status == token_check(row)
    IN /\ i \in inst
       /\ result' = Outcome("save", status, 0)
       /\ token' = IF status = OK THEN without(token, {row.id}) \cup {row} ELSE token
       /\ seq' = IF status = OK /\ i.pk = 0 THEN [seq EXCEPT !.token = row.id] ELSE seq
       /\ inst' = (inst \ {i}) \cup
                    {[i EXCEPT !.key = row.key, !.pk = IF status = OK THEN row.id ELSE i.pk]}
       /\ UNCHANGED token_rest

\* ConfirmEmailToken.objects.create(user=u, key=key): a new instance saved
\* at once and not kept
create_token(u, key, k) ==
    /\ insert("token", ConfirmEmailToken(seq.token + 1, u, key_to_save(key, k)),
              token_check(ConfirmEmailToken(seq.token + 1, u, key_to_save(key, k))), token,
              token_rest)
    /\ UNCHANGED inst

(***************************************************************************)
(* Two writers of ProductInfo, each checking for the listing and then      *)
(* creating it (check-then-create); `writer` holds what each has done.     *)
(***************************************************************************)
Writers == {"w1", "w2"}

\* ProductInfo.objects.filter(product=p, shop=s, external_id=ext).exists()
listed(p, s, ext) ==
    \E r \in product_info : <<r.product, r.shop, r.external_id>> = <<p, s, ext>>

\* writer w finds the listing absent and decides to create it
writer_check(w, p, s, ext, qty) ==
    /\ \A x \in writer : x.w # w
    /\ ~listed(p, s, ext)
    /\ writer' = writer \cup {[w |-> w, row |-> ProductInfo(0, p, s, ext, qty), status |-> "checked"]}
    /\ result' = Outcome("exists", OK, 0)
    /\ UNCHANGED <<product_info, seq>>
    /\ UNCHANGED product_info_rest

\* the writer's INSERT, whatever the other writer stored meanwhile
writer_insert(x) ==
    LET row == [x.row EXCEPT !.id = seq.product_info + 1] IN
    /\ x \in writer /\ x.status = "checked"
    /\ insert("product_info", row, product_info_check(row), product_info, product_info_rest)
    /\ writer' = (writer \ {x}) \cup {[x EXCEPT !.status = product_info_check(row)]}

Init ==
    /\ user = {} /\ shop = {} /\ category = {} /\ category_shops = {}
    /\ product = {} /\ product_info = {} /\ parameter = {} /\ product_parameter = {}
    /\ contact = {} /\ order = {} /\ order_item = {} /\ token = {}
    /\ seq = [t \in TableNames |-> 0]
    /\ result = Outcome("init", OK, 0)
    /\ inst = {}
    /\ writer = {}

NextUser ==
    \/ seq.user < MaxUsers /\ \E e \in EmailArgs, x \in ExtraFields : create_user(e, x)
    \/ seq.user < MaxUsers /\ \E e \in EmailArgs, x \in ExtraFields : create_superuser(e, x)
    \/ \E pk \in 1..MaxUsers : activate_user(pk)

SpecUser == Init /\ [][NextUser]_vars

(***************************************************************************)
(* The whole schema.  The run starts from a populated database, the one    *)
(* these calls build from the empty one: create_user("a@x"),               *)
(* create_user("A@x"), Shop(user=1), Shop(user=None), Category, Product,   *)
(* ProductInfo(shop 1), ProductInfo(shop 2), Parameter,                    *)
(* ProductParameter(info 1), Contact(user 2), Order(user 2, basket,        *)
(* contact 1), OrderItem(info 1), OrderItem(info 2).  User 1 administers   *)
(* shop 1; user 2 buys from both shops.  Category links and tokens come    *)
(* with the run's own creates.                                             *)
(***************************************************************************)
Populated ==
    [user |-> {User(1, a_x, NoExtra), User(2, <<"A", "@", "x">>, NoExtra)},
     shop |-> {Shop(1, 1), Shop(2, NULL)},
     category |-> {[id |-> 1]},
     category_shops |-> {},
     product |-> {Product(1, 1)},
     product_info |-> {ProductInfo(1, 1, 1, 1, 1), ProductInfo(2, 1, 2, 1, 1)},
     parameter |-> {[id |-> 1]},
     product_parameter |-> {ProductParameter(1, 1, 1)},
     contact |-> {Contact(1, 2)},
     order |-> {Order(1, 2, "basket", 1)},
     order_item |-> {OrderItem(1, 1, 1, 1), OrderItem(2, 1, 2, 1)},
     token |-> {}]

\* the keys issued so far, all tables together
Issued(sq) ==
    sq.user + sq.shop + sq.category + sq.product + sq.product_info + sq.parameter
       + sq.product_parameter + sq.contact + sq.order + sq.order_item + sq.token
       + sq.category_shops

InitPopulated ==
    /\ user = Populated.user /\ shop = Populated.shop /\ category = Populated.category
    /\ category_shops = Populated.category_shops /\ product = Populated.product
    /\ product_info = Populated.product_info /\ parameter = Populated.parameter
    /\ product_parameter = Populated.product_parameter /\ contact = Populated.contact
    /\ order = Populated.order /\ order_item = Populated.order_item /\ token = Populated.token
    /\ seq = [t \in TableNames |-> Cardinality(Populated[t])]
    /\ result = Outcome("init", OK, 0)
    /\ inst = {}
    /\ writer = {}

\* room for MaxNew more rows
Room == Issued(seq) < Issued([t \in TableNames |-> Cardinality(Populated[t])]) + MaxNew

Next ==
    \/ Room /\ \E e \in {a_X, <<"a", "x">>} : create_user(e, NoExtra)
    \/ Room /\ \E u \in {NULL} \cup Refs("user") : create_shop(u)
    \/ Room /\ create_category
    \/ Room /\ \E c \in Refs("category"), sh \in Refs("shop") : shops_add(c, sh)
    \/ Room /\ \E c \in Refs("category") : create_product(c)
    \/ Room /\ create_parameter
    \/ Room /\ \E p \in Refs("product"), sh \in Refs("shop") : create_product_info(p, sh, 1, 1)
    \/ Room /\ \E pi \in Refs("product_info"), par \in Refs("parameter") :
                  create_product_parameter(pi, par)
    \/ Room /\ \E u \in Refs("user") : create_contact(u)
    \/ Room /\ \E u \in Refs("user"), c \in {NULL} \cup Refs("contact") : create_order(u, "basket", c)
    \/ Room /\ \E o \in Refs("order"), pi \in Refs("product_info") : create_order_item(o, pi, 1)
    \/ Room /\ \E u \in Refs("user"), k \in Keys : create_token(u, "", k)
    \/ \E t \in TableNames : \E pk \in ids(Table(t)) : delete(t, pk)

Spec == InitPopulated /\ [][Next]_vars

(***************************************************************************)
(* Narrower runs over the same database, each with the operations of one   *)
(* part of the schema and a wider choice of their inputs.                  *)
(***************************************************************************)
\* rows of table t stored since the populated start
New(t) == seq[t] - Cardinality(Populated[t])

NextOrder ==
    \/ New("order") < MaxNew /\
          \E st \in STATE_CHOICES, c \in {NULL} \cup ids(contact) : create_order(2, st, c)
    \/ \E old \in order, st \in STATE_CHOICES, c \in {NULL} \cup ids(contact) :
          order_save(old, st, c)
    \/ \E pk \in ids(order) : delete("order", pk)

SpecOrder == InitPopulated /\ [][NextOrder]_vars

Quantities == {1, 2}

NextOrderItem ==
    \/ New("order") < MaxNew /\ \E u \in Refs("user") : create_order(u, "basket", NULL)
    \/ New("order_item") < MaxRows /\
          \E o \in Refs("order"), pi \in Refs("product_info"), q \in Quantities :
              create_order_item(o, pi, q)
    \/ \E old \in order_item, pi \in Refs("product_info"), q \in Quantities :
          order_item_save(old, pi, q)
    \/ \E pk \in ids(order_item) : delete("order_item", pk)

SpecOrderItem == InitPopulated /\ [][NextOrderItem]_vars

ExternalIds == {1, 2}

NextProductInfo ==
    \/ New("product_info") < MaxRows /\
          \E pr \in Refs("product"), sh \in Refs("shop"), ext \in ExternalIds, q \in Quantities :
              create_product_info(pr, sh, ext, q)
    \/ \E old \in product_info, ext \in ExternalIds, q \in Quantities :
          product_info_save(old, old.shop, ext, q)
    \/ \E w \in Writers, ext \in ExternalIds : writer_check(w, 1, 1, ext, 2)
    \/ New("product_info") < MaxRows /\ \E x \in writer : writer_insert(x)

SpecProductInfo == InitPopulated /\ [][NextProductInfo]_vars

NextToken ==
    \/ seq.user < MaxUsers /\ create_user(a_x, NoExtra)
    \/ \E pk \in ids(user) : delete("user", pk)
    \/ Cardinality(inst) < MaxTokens /\ \E u \in Refs("user"), key \in {""} \cup Keys :
          token_new(u, key)
    \/ \E i \in inst, k \in Keys : token_save(i, k)

SpecToken == Init /\ [][NextToken]_vars

(***************************************************************************)
(* Claims about cascading deletes (checked under Spec)                     *)
(***************************************************************************)
infos_of(s) == {r \in product_info : r.shop = s}

\* C7: deleting a Shop succeeds; afterwards none of its ProductInfo rows, none
\* of their ProductParameter rows and no OrderItem referencing them remains,
\* and every other ProductInfo (with its parameters and order items), Product,
\* Parameter, Order and User is unchanged.
C7_DeleteShop ==
    [][ result'.op = "delete" => \A s \in ids(shop) : delete("shop", s) =>
          LET gone == ids(infos_of(s)) IN
          /\ result'.status = OK
          /\ s \notin ids(shop')
          /\ product_info' = product_info \ infos_of(s)
          /\ product_parameter' = {r \in product_parameter : r.product_info \notin gone}
          /\ order_item' = {r \in order_item : r.product_info \notin gone}
          /\ shop' = {r \in shop : r.id # s}
          /\ UNCHANGED <<user, category, product, parameter, contact, order, token>> ]_vars

\* shop 1 deleted from the populated database: info 1, its parameter and the
\* order item for it are gone, shop 2's listing and its order item remain
C7_Witness ==
    /\ result = Outcome("delete", OK, 0)
    /\ shop = {Shop(2, NULL)}
    /\ product_info = {ProductInfo(2, 1, 2, 1, 1)}
    /\ product_parameter = {}
    /\ order_item = {OrderItem(2, 1, 2, 1)}
    /\ user = Populated.user /\ order = Populated.order /\ product = Populated.product
    /\ parameter = Populated.parameter

refers(rows, column, t) == \A r \in rows : r[column] \in ids(Table(t))

NoDangling ==
    /\ \A r \in shop : r.user = NULL \/ r.user \in ids(user)
    /\ refers(category_shops, "category", "category") /\ refers(category_shops, "shop", "shop")
    /\ refers(product, "category", "category")
    /\ refers(product_info, "product", "product") /\ refers(product_info, "shop", "shop")
    /\ refers(product_parameter, "product_info", "product_info")
    /\ refers(product_parameter, "parameter", "parameter")
    /\ refers(contact, "user", "user")
    /\ refers(order, "user", "user")
    /\ \A r \in order : r.contact = NULL \/ r.contact \in ids(contact)
    /\ refers(order_item, "order", "order") /\ refers(order_item, "product_info", "product_info")
    /\ refers(token, "user", "user")

\* C10: after any sequence of creates and deletes every non-null reference
\* names a stored row; deleting a User deletes the Shop it administers, that
\* shop's ProductInfo rows and every OrderItem (of any user's order) that
\* references them; deleting a Contact deletes every Order that uses it.
C10_References ==
    /\ []NoDangling
    /\ [][ result'.op = "delete" =>
           /\ \A u \in ids(user) : delete("user", u) =>
                LET shops == ids({r \in shop : r.user = u})
                    infos == ids({r \in product_info : r.shop \in shops})
                IN /\ \A r \in shop' : r.id \notin shops
                   /\ \A r \in product_info' : r.id \notin infos
                   /\ \A r \in order_item' : r.product_info \notin infos
           /\ \A c \in ids(contact) : delete("contact", c) =>
                \A r \in order' : r.contact # c /\ r \in order ]_vars

\* user 1 deleted from the populated database: shop 1, info 1 and the item of
\* user 2's order that referenced info 1 are gone
C10_Witness ==
    /\ result = Outcome("delete", OK, 0)
    /\ ids(user) = {2} /\ ids(shop) = {2} /\ ids(product_info) = {2}
    /\ order = Populated.order /\ order_item = {OrderItem(2, 1, 2, 1)}

(***************************************************************************)
(* Claims about the user factory (checked under SpecUser)                  *)
(***************************************************************************)
ValueErrors == {"ValueError: The given email must be set",
                "ValueError: Superuser must have is_staff=True.",
                "ValueError: Superuser must have is_superuser=True."}

Failed(status) == status \in ValueErrors \cup {UniqueViolation("user.email")}

\* a step of either factory method (each names itself in the outcome)
create(e, x) ==
    \/ result'.op = "create_user" /\ create_user(e, x)
    \/ result'.op = "create_superuser" /\ create_superuser(e, x)

\* C1 as written: a create whose normalized email is already stored fails and
\* stores nothing, and after "a@x" is stored, creating "A@X" fails on uniqueness.
C1_Original ==
    [][ /\ \A e \in EmailArgs :
             (\E u \in user : u.email = normalized[e]) =>
                \/ Failed(result'.status) /\ user' = user
                \/ \A x \in ExtraFields : ~create(e, x)
        /\ (\E u \in user : u.email = a_x) /\ create_user(A_X, NoExtra)
                => result'.status = UniqueViolation("user.email") /\ user' = user ]_vars

\* C1 amended: a create whose normalized email (domain part lowered, local part
\* kept) is already stored fails and stores nothing; after "a@x" is stored,
\* creating "a@X" fails on uniqueness; no two stored users share an email.
C1_Amended ==
    [][ /\ \A e \in EmailArgs :
             (\E u \in user : u.email = normalized[e]) =>
                \/ Failed(result'.status) /\ user' = user
                \/ \A x \in ExtraFields : ~create(e, x)
        /\ (\E u \in user : u.email = a_x) /\ create_user(a_X, NoExtra)
                => result'.status = UniqueViolation("user.email") /\ user' = user
        /\ \A u, v \in user' : u.email = v.email => u = v ]_vars

C1_Witness ==
    /\ result.op = "create_user" /\ result.status = UniqueViolation("user.email")
    /\ \E u \in user : u.email = a_x

\* C2: a user returned by create_superuser has is_staff and is_superuser; a call
\* passing is_staff or is_superuser other than True raises and stores nothing.
C2_Superuser ==
    [][ /\ (result'.op = "create_superuser" /\ result'.status = OK /\ result' # result) =>
                \E u \in user' \ user : u.id = result'.pk /\ u.is_staff /\ u.is_superuser
        /\ \A x \in ExtraFields :
             (x.is_staff \notin {Absent, "True"} \/ x.is_superuser \notin {Absent, "True"}) =>
                \A e \in EmailArgs : create_superuser(e, x) =>
                    /\ result'.status \in {"ValueError: Superuser must have is_staff=True.",
                                           "ValueError: Superuser must have is_superuser=True."}
                    /\ user' = user /\ seq' = seq ]_vars

C2_Witness ==
    /\ result.op = "create_superuser"
    /\ result.status = "ValueError: Superuser must have is_superuser=True."
    /\ \E u \in user : u.is_staff /\ u.is_superuser

\* C3 as written: every row stored by create_user / create_superuser, whatever
\* the extra fields, is inactive.
C3_Original ==
    (result.op \in {"create_user", "create_superuser"} /\ result.status = OK)
        => \A u \in user : u.id = result.pk => ~u.is_active

\* C3 amended: a row stored by a create call that passes no is_active is
\* inactive; a row is active only if its create call passed is_active or a
\* later separate update activated it.
C3_Amended ==
    [][ /\ \A u \in user' \ user :
             u.is_active => ~(\E e \in EmailArgs, x \in ExtraFields :
                                 x.is_active = Absent /\ create(e, x))
        /\ \A u \in user' :
             (u.is_active /\ ~(\E v \in user : v.id = u.id /\ v.is_active)) =>
                \/ activate_user(u.id)
                \/ \E e \in EmailArgs, x \in ExtraFields : x.is_active # Absent /\ create(e, x) ]_vars

C3_Witness ==
    /\ result.op = "activate_user"
    /\ \E u \in user : u.id = result.pk /\ u.is_active
    /\ \E u \in user : u.id # result.pk /\ ~u.is_active

\* C8: a create with an absent email (None or "") raises a validation error
\* and leaves the stored users unchanged.
C8_EmailRequired ==
    [][ \A e \in {None, << >>}, x \in ExtraFields :
          create(e, x) => result'.status \in ValueErrors /\ user' = user /\ seq' = seq ]_vars

C8_Witness ==
    /\ result.status = "ValueError: The given email must be set"
    /\ user # {}

(***************************************************************************)
(* Claims about ConfirmEmailToken (checked under SpecToken)                *)
(***************************************************************************)
\* the instance named n as it is after the step
after(n) == CHOOSE j \in inst' : j.n = n

\* C4: a token saved with no key gets the generated key during that save; a
\* save of a token that has a key keeps it, and the key stored under a primary
\* key never changes; no two stored tokens share a key, and a save whose key
\* another stored token holds fails on the key's uniqueness, storing nothing.
C4_TokenKey ==
    /\ [](\A r, s \in token : r.key = s.key => r = s)
    /\ [][ result'.op = "save" =>
             /\ \A i \in inst, k \in Keys : token_save(i, k) =>
                  /\ i.key = "" => after(i.n).key = k
                  /\ i.key # "" => after(i.n).key = i.key
                  /\ result'.status = OK =>
                        ConfirmEmailToken(after(i.n).pk, i.user, after(i.n).key) \in token'
                  /\ (\E r \in token : r.key = after(i.n).key /\ r.id # i.pk) =>
                        result'.status = UniqueViolation("token.key") /\ token' = token
             /\ \A r \in token, t \in token' : r.id = t.id => r.key = t.key ]_vars

\* a stored token holds a key, a second instance with the same key was saved
\* and refused
C4_Witness ==
    /\ result = Outcome("save", UniqueViolation("token.key"), 0)
    /\ \E i, j \in inst :
          /\ i.pk # 0 /\ i.key \in Keys /\ ConfirmEmailToken(i.pk, i.user, i.key) \in token
          /\ j.pk = 0 /\ j.key = i.key

(***************************************************************************)
(* Claims about ProductInfo (checked under SpecProductInfo)                *)
(***************************************************************************)
\* the listing (product, shop, external_id) is stored under a key other than pk
listed_elsewhere(pk, p, s, ext) ==
    \E r \in product_info : r.id # pk /\ <<r.product, r.shop, r.external_id>> = <<p, s, ext>>

duplicate_refused ==
    result'.status = UniqueViolation("unique_product_info") /\ product_info' = product_info

\* C5: no two ProductInfo rows share (product, shop, external_id); an insert or
\* an update that would store a second row for a listing, issued directly or by
\* one of two interleaved writers that both found the listing absent, fails
\* with an integrity error and leaves the stored rows as they were.
C5_UniqueProductInfo ==
    /\ [](\A r, s \in product_info :
             <<r.product, r.shop, r.external_id>> = <<s.product, s.shop, s.external_id>> => r = s)
    /\ [][ (result'.op = "save" /\ ~duplicate_refused) =>
             /\ \A pr \in Refs("product"), sh \in Refs("shop"), ext \in ExternalIds :
                  listed(pr, sh, ext) =>
                     \A q \in Quantities : ~create_product_info(pr, sh, ext, q)
             /\ \A old \in product_info, ext \in ExternalIds :
                  listed_elsewhere(old.id, old.product, old.shop, ext) =>
                     \A q \in Quantities : ~product_info_save(old, old.shop, ext, q)
             /\ \A x \in writer :
                  listed(x.row.product, x.row.shop, x.row.external_id) => ~writer_insert(x) ]_vars

\* both writers found the listing absent; one stored it, the other's insert
\* was refused and the stored row is the first writer's
C5_Witness ==
    /\ result = Outcome("save", UniqueViolation("unique_product_info"), 0)
    /\ \E x, y \in writer :
          /\ x.w # y.w /\ x.row = y.row
          /\ x.status = OK /\ y.status = UniqueViolation("unique_product_info")
          /\ listed(x.row.product, x.row.shop, x.row.external_id)

(***************************************************************************)
(* Claims about OrderItem (checked under SpecOrderItem)                    *)
(***************************************************************************)
\* C6: no two OrderItem rows of one order reference the same ProductInfo; an
\* insert for an (order, product_info) pair that has a row is refused on the
\* pair's uniqueness, and a refused save stores nothing; the line of a pair
\* stays the same row from step to step, so the pair's amount changes only
\* through that row's quantity.
C6_UniqueOrderItem ==
    /\ [](\A r, s \in order_item :
             (r.order = s.order /\ r.product_info = s.product_info) => r = s)
    /\ [](\A r \in order_item, q \in Quantities :
             order_item_check(OrderItem(seq.order_item + 1, r.order, r.product_info, q))
                = UniqueViolation("unique_order_item"))
    /\ [][ /\ (result'.op = "save" /\ result'.status # OK) => order_item' = order_item
           /\ order_item' # order_item =>
                \A r \in order_item, t \in order_item' :
                    (r.order = t.order /\ r.product_info = t.product_info) => r.id = t.id ]_vars

\* a second insert for a line of the basket order was refused, and the line's
\* quantity has been changed by an update of the row itself
C6_Witness ==
    /\ result = Outcome("save", UniqueViolation("unique_order_item"), 0)
    /\ \E o \in order : o.state = "basket" /\ OrderItem(1, o.id, 1, 2) \in order_item

(***************************************************************************)
(* Claims about Order (checked under SpecOrder)                            *)
(***************************************************************************)
\* C9: save() accepts every change of an Order's state, from any of the seven
\* states to any of them, and accepts the order with its contact absent as
\* well as present: no save of an Order with stored references is refused,
\* and the changed row is what is stored afterwards.
C9_NoLifecycle ==
    /\ [](\A old \in order, st \in STATE_CHOICES, c \in {NULL} \cup ids(contact) :
             order_check(old, [old EXCEPT !.state = st, !.contact = c]) = OK)
    /\ [][ result'.op = "save" =>
             /\ result'.status = OK
             /\ seq' = seq =>
                  \A old \in order, st \in STATE_CHOICES, c \in {NULL} \cup ids(contact) :
                     order_save(old, st, c) =>
                        order' = (order \ {old}) \cup {[old EXCEPT !.state = st, !.contact = c]}
             /\ seq' # seq =>
                  \A u \in ids(user), st \in STATE_CHOICES, c \in {NULL} \cup ids(contact) :
                     create_order(u, st, c) => Order(seq.order + 1, u, st, c) \in order' ]_vars

\* the basket order of the populated database, saved as sent with no contact,
\* next to a new order stored as delivered
C9_Witness ==
    /\ result = Outcome("save", OK, 0)
    /\ Order(1, 2, "sent", NULL) \in order
    /\ \E o \in order : o.id # 1 /\ o.state = "delivered"

====
